---- MODULE Spec2Model ----
(***************************************************************************)
(* The chain engine of gas_blockchain (src/blockchain.py): Block hashing   *)
(* and proof-of-work, the pending pool, Blockchain.add_block running as    *)
(* asyncio coroutines on one event loop, and Blockchain.is_valid.          *)
(*                                                                         *)
(* Strings of hex digits are sequences of digit values: "0" is <<0>>.      *)
(* A transaction object is represented by its identity (a number); the     *)
(* genesis transaction is GenesisTx.                                       *)
(***************************************************************************)
EXTENDS Integers, Sequences, FiniteSets, TLC

\* Bounds of the model.
MaxChain == 3        \* blocks in chain, genesis included
MaxTx == 2           \* transactions submitted over a run
MaxTime == 1         \* readings of time.time() are 0..MaxTime
MaxNonce == 6        \* the mining loop is not followed past this nonce
MaxDifficulty == 2   \* difficulty is chosen in 0..MaxDifficulty

\* The coroutines of add_block that the event loop may hold at once: two are
\* what it takes to interleave one add_block with another.
Tasks == {"t1", "t2"}
GenesisTx == 0
ForgedTx == 99
NoBlock == [index |-> -1]
NoRet == [kind |-> "none"]

VARIABLES
    chain,                  \* Blockchain.chain
    difficulty,             \* Blockchain.difficulty
    pending_transactions,   \* Blockchain.pending_transactions
    pc,                     \* per coroutine: "idle" or "mining" (suspended at the await of mine)
    new_block,              \* per coroutine: the local new_block of add_block
    call_pre,               \* per coroutine: chain[-1] and the pool as add_block found them
    ret,                    \* how the last call that ended has ended: its value or its exception
    now,                    \* the clock read by time.time()
    nextTx,                 \* identity of the next transaction object to be submitted
    tampered,               \* what a test harness last overwrote in chain, if anything
    tx,                     \* a Transaction object in a caller's hands
    db                      \* the rows of table blocks (BlockReference.block_hash)

vars == <<chain, difficulty, pending_transactions, pc, new_block, call_pre, ret,
          now, nextTx, tampered, tx, db>>

--------------------------------------------------------------------------
\* Block.calculate_hash

\* json.dumps(..., sort_keys=True): the pairs in key order, whatever the order
\* in which the dict literal lists them.
json_dumps(b) ==
    << <<"index", b.index>>, <<"nonce", b.nonce>>,
       <<"previous_hash", b.previous_hash>>, <<"timestamp", b.timestamp>> >>

RECURSIVE Weight(_)
Weight(s) == IF s = <<>> THEN 0 ELSE Head(s) + Weight(Tail(s))

\* hashlib.sha256(...).hexdigest(), as a collision-free digest: two leading
\* digits that vary with every input (the part proof-of-work looks at),
\* followed by digits that determine the input.
sha256_hexdigest(data) ==
    LET idx == data[1][2]
        n == data[2][2]
        prev == data[3][2]
        ts == data[4][2]
        m == (5 * idx + 3 * ts + 2 * Weight(prev) + n + 1) % 6
    IN  <<m % 3, m \div 3, idx % 16, n % 16, ts % 16>> \o prev

calculate_hash(b) == sha256_hexdigest(json_dumps(b))

\* Block(...) with __post_init__: nonce = 0 and the hash computed at once.
Block(index, previous_hash, timestamp, transactions) ==
    LET b == [index |-> index, previous_hash |-> previous_hash,
              timestamp |-> timestamp, transactions |-> transactions,
              nonce |-> 0]
    IN  [index |-> index, previous_hash |-> previous_hash,
         timestamp |-> timestamp, transactions |-> transactions,
         nonce |-> 0, hash |-> calculate_hash(b)]

\* "0" * difficulty
Zeros(d) == [i \in 1..d |-> 0]

\* str.startswith
startswith(s, p) == Len(s) >= Len(p) /\ SubSeq(s, 1, Len(p)) = p

mined_one_short(b, d) == startswith(b.hash, Zeros(d - 1))

\* The loop test of Block.mine: True when the loop is left.
mined(b, d) == startswith(b.hash, Zeros(d))

mine_step_by_two(b) ==
    LET b1 == [b EXCEPT !.nonce = b.nonce + 2]
    IN  [b1 EXCEPT !.hash = calculate_hash(b1)]

\* One pass of the body of the loop of Block.mine, up to the await.
mine_step(b) ==
    LET b1 == [b EXCEPT !.nonce = b.nonce + 1]
    IN  [b1 EXCEPT !.hash = calculate_hash(b1)]

--------------------------------------------------------------------------
\* Transaction

\* Strings are sequences of characters. The metered fields input_gas,
\* output_gas and self_consumption enter neither sign nor is_valid.
Genesis == <<"G", "e", "n", "e", "s", "i", "s">>
None == [kind |-> "None"]

\* The NIST256p key pairs of a run, and the randomness SigningKey.sign draws.
Keys == {1, 2}
Salts == {0, 1}

HexDigits == {"0", "1", "2", "a"}

\* VerifyingKey.to_string().hex() of the public key of pair k.
KeyHex(k) == <<"0", IF k = 1 THEN "1" ELSE "2">>

\* str(amount) of a whole amount below 100.
RECURSIVE Digits(_)
Digits(n) ==
    LET d == CASE n % 10 = 0 -> "0" [] n % 10 = 1 -> "1" [] n % 10 = 2 -> "2"
               [] OTHER -> "a"
    IN  IF n < 10 THEN <<d>> ELSE Digits(n \div 10) \o <<d>>

\* f"{self.sender}{self.receiver}{self.amount}".encode()
tx_data(t) == t.sender \o t.receiver \o Digits(t.amount)

\* SigningKey.sign(data) of pair k, and .hex() of it.
ecdsa_sign(k, data, salt) == [signer |-> k, data |-> data, salt |-> salt]
SigHex(sig) == [kind |-> "hexsig", sig |-> sig]

\* Transaction.sign
sign(t, k, salt) == [t EXCEPT !.signature = SigHex(ecdsa_sign(k, tx_data(t), salt))]

Raise(e) == [kind |-> "raise", exc |-> e]
Value(v) == [kind |-> "value", value |-> v]

\* bytes.fromhex of a str of characters: ValueError on a non-hex character or
\* an odd length.
fromhex_text(text) ==
    IF Len(text) % 2 = 0 /\ \A i \in 1..Len(text) : text[i] \in HexDigits
    THEN Value([kind |-> "bytes", text |-> text])
    ELSE Raise("ValueError")

\* bytes.fromhex(self.signature): TypeError on None.
fromhex_signature(sg) ==
    CASE sg.kind = "None" -> Raise("TypeError")
      [] sg.kind = "hexsig" -> Value([kind |-> "sig", sig |-> sg.sig])
      [] sg.kind = "str" -> fromhex_text(sg.text)

\* VerifyingKey.from_string(bytes, curve=NIST256p): MalformedPointError unless
\* the bytes are the encoding of a point of the curve.
from_string(bytes) ==
    IF \E k \in Keys : bytes.text = KeyHex(k)
    THEN Value(CHOOSE k \in Keys : bytes.text = KeyHex(k))
    ELSE Raise("MalformedPointError")

\* VerifyingKey.verify(signature, data): True, or BadSignatureError.
verify(vk, sigbytes, data) ==
    IF sigbytes.kind = "sig" /\ sigbytes.sig.signer = vk /\ sigbytes.sig.data = data
    THEN Value(TRUE)
    ELSE Raise("BadSignatureError")

\* Lines 27-29, the body of the try.
is_valid_try(t) ==
    LET raw == fromhex_text(t.sender)
    IN  IF raw.kind = "raise" THEN raw
        ELSE LET vk == from_string(raw.value)
             IN  IF vk.kind = "raise" THEN vk
                 ELSE LET sg == fromhex_signature(t.signature)
                      IN  IF sg.kind = "raise" THEN sg
                          ELSE verify(vk.value, sg.value, tx_data(t))

Transaction_is_valid_uncaught(t) ==
    IF t.sender = Genesis THEN Value(TRUE) ELSE is_valid_try(t)

\* Transaction.is_valid
Transaction_is_valid(t) ==
    IF t.sender = Genesis THEN Value(TRUE)
    ELSE LET r == is_valid_try(t)
         IN  IF r.kind = "raise" THEN Value(FALSE) ELSE r

\* Transaction(...) as _create_genesis_block builds it.
genesis_tx == [sender |-> Genesis, receiver |-> Genesis, amount |-> 0,
               signature |-> None]

--------------------------------------------------------------------------
\* Blockchain

_create_genesis_block(t) == Block(0, <<0>>, t, <<GenesisTx>>)

Last(s) == s[Len(s)]

\* The loop of Blockchain.is_valid over i = from .. len(chain)-1 (positions
\* from+1 .. Len in a 1-based sequence), returning False at the first mismatch.
RECURSIVE is_valid_links_only(_, _)
is_valid_links_only(c, i) ==
    IF i > Len(c) THEN TRUE
    ELSE IF c[i].previous_hash # c[i-1].hash
         THEN FALSE
         ELSE is_valid_links_only(c, i + 1)

RECURSIVE is_valid_from(_, _)
is_valid_from(c, i) ==
    IF i > Len(c) THEN TRUE
    ELSE IF c[i].hash # calculate_hash(c[i]) \/ c[i].previous_hash # c[i-1].hash
         THEN FALSE
         ELSE is_valid_from(c, i + 1)

is_valid_first_only(c) ==
    IF Len(c) < 2 THEN TRUE ELSE is_valid_from(<<c[1], c[2]>>, 2)

is_valid(c) == is_valid_from(c, 2)

Init ==
    /\ now = 0
    /\ chain = << _create_genesis_block(0) >>
    /\ difficulty \in 0..MaxDifficulty
    /\ pending_transactions = <<>>
    /\ pc = [t \in Tasks |-> "idle"]
    /\ new_block = [t \in Tasks |-> NoBlock]
    /\ call_pre = [t \in Tasks |-> NoRet]
    /\ ret = NoRet
    /\ nextTx = 1
    /\ tampered = NoRet
    /\ tx = genesis_tx
    /\ db = <<>>

--------------------------------------------------------------------------
\* Blockchain.add_block, one action per stretch between two suspensions

Mining == {t \in Tasks : pc[t] = "mining"}

Commit_append_only(t, b) ==
    /\ chain' = Append(chain, b)
    /\ pending_transactions' = pending_transactions
    /\ pc' = [pc EXCEPT ![t] = "idle"]
    /\ new_block' = [new_block EXCEPT ![t] = NoBlock]
    /\ call_pre' = [call_pre EXCEPT ![t] = NoRet]
    /\ ret' = [kind |-> "block", task |-> t, block |-> b]

\* transactions=self.pending_transactions, without .copy(): the block's list is
\* the pool itself, and clear() empties both.
Commit_live_pool(t, b) ==
    /\ chain' = Append(chain, [b EXCEPT !.transactions = <<>>])
    /\ pending_transactions' = <<>>
    /\ pc' = [pc EXCEPT ![t] = "idle"]
    /\ new_block' = [new_block EXCEPT ![t] = NoBlock]
    /\ call_pre' = [call_pre EXCEPT ![t] = NoRet]
    /\ ret' = [kind |-> "block", task |-> t, block |-> [b EXCEPT !.transactions = <<>>]]

Commit_replaces_last(t, b) ==
    /\ chain' = [chain EXCEPT ![Len(chain)] = b]
    /\ pending_transactions' = <<>>
    /\ pc' = [pc EXCEPT ![t] = "idle"]
    /\ new_block' = [new_block EXCEPT ![t] = NoBlock]
    /\ call_pre' = [call_pre EXCEPT ![t] = NoRet]
    /\ ret' = [kind |-> "block", task |-> t, block |-> b]

\* Lines 90-92: reached from the loop test of mine without any await.
Commit(t, b) ==
    /\ chain' = Append(chain, b)
    /\ pending_transactions' = <<>>
    /\ pc' = [pc EXCEPT ![t] = "idle"]
    /\ new_block' = [new_block EXCEPT ![t] = NoBlock]
    /\ call_pre' = [call_pre EXCEPT ![t] = NoRet]
    /\ ret' = [kind |-> "block", task |-> t, block |-> b]

\* The coroutine runs with local block b from the loop test of mine to its
\* next await asyncio.sleep(0), or to the return of add_block.
RunMine(t, b, pre) ==
    IF mined(b, difficulty)
    THEN Commit(t, b)
    ELSE /\ b.nonce < MaxNonce
         /\ new_block' = [new_block EXCEPT ![t] = mine_step(b)]
         /\ pc' = [pc EXCEPT ![t] = "mining"]
         /\ call_pre' = [call_pre EXCEPT ![t] = pre]
         /\ UNCHANGED <<chain, pending_transactions, ret>>

PoolEmpty_unchecked == FALSE

\* if not self.pending_transactions
PoolEmpty == pending_transactions = <<>>

next_block_unlinked(latest_block, t, pool) ==
    Block(latest_block.index + 1, latest_block.previous_hash, t, pool)

\* Lines 81-87: the block built on latest_block at time t from a copy of the pool.
next_block(latest_block, t, pool) ==
    Block(latest_block.index + 1, latest_block.hash, t, pool)

\* A call of add_block, up to its first suspension or its end.
AddBlockCall(t) ==
    /\ pc[t] = "idle"
    /\ IF PoolEmpty
       THEN /\ ret' = [kind |-> "ValueError", task |-> t]
            /\ UNCHANGED <<chain, pending_transactions, pc, new_block, call_pre>>
       ELSE /\ Len(chain) + Cardinality(Mining) < MaxChain
            /\ LET latest_block == Last(chain)
                   b == next_block(latest_block, now, pending_transactions)
                   pre == [kind |-> "call", latest |-> latest_block,
                           pool |-> pending_transactions]
               IN  RunMine(t, b, pre)
    /\ UNCHANGED <<difficulty, now, nextTx, tampered, tx, db>>

\* The event loop resumes a coroutine suspended in mine.
MineResume(t) ==
    /\ pc[t] = "mining"
    /\ RunMine(t, new_block[t], call_pre[t])
    /\ UNCHANGED <<difficulty, now, nextTx, tampered, tx, db>>

Cancel_keeps_block(t) ==
    /\ pc[t] = "mining"
    /\ chain' = Append(chain, new_block[t])
    /\ pc' = [pc EXCEPT ![t] = "idle"]
    /\ new_block' = [new_block EXCEPT ![t] = NoBlock]
    /\ call_pre' = [call_pre EXCEPT ![t] = NoRet]
    /\ ret' = [kind |-> "CancelledError", task |-> t]
    /\ UNCHANGED <<pending_transactions, difficulty, now, nextTx, tampered, tx, db>>

\* The task is cancelled: CancelledError is raised at the await of mine and
\* leaves add_block through no handler.
Cancel(t) ==
    /\ pc[t] = "mining"
    /\ pc' = [pc EXCEPT ![t] = "idle"]
    /\ new_block' = [new_block EXCEPT ![t] = NoBlock]
    /\ call_pre' = [call_pre EXCEPT ![t] = NoRet]
    /\ ret' = [kind |-> "CancelledError", task |-> t]
    /\ UNCHANGED <<chain, pending_transactions, difficulty, now, nextTx,
                   tampered, tx, db>>

\* A caller hands a new transaction object to the pool.
Submit ==
    /\ nextTx <= MaxTx
    /\ pending_transactions' = Append(pending_transactions, nextTx)
    /\ nextTx' = nextTx + 1
    /\ UNCHANGED <<chain, difficulty, pc, new_block, call_pre, ret, now,
                   tampered, tx, db>>

\* A call of Blockchain.is_valid (no await in it: it runs in one piece).
IsValidCall ==
    /\ ret' = [kind |-> "bool", value |-> is_valid(chain)]
    /\ UNCHANGED <<chain, difficulty, pending_transactions, pc, new_block,
                   call_pre, now, nextTx, tampered, tx, db>>

\* time.time() advances.
Tick ==
    /\ now < MaxTime
    /\ now' = now + 1
    /\ UNCHANGED <<chain, difficulty, pending_transactions, pc, new_block,
                   call_pre, ret, nextTx, tampered, tx, db>>

Next ==
    \/ \E t \in Tasks : AddBlockCall(t)
    \/ \E t \in Tasks : MineResume(t)
    \/ \E t \in Tasks : Cancel(t)
    \/ Submit
    \/ IsValidCall
    \/ Tick

Spec == Init /\ [][Next]_vars

\* The event loop runs its ready queue in order: a coroutine that has yielded
\* with asyncio.sleep(0) is resumed on the next pass. No task is cancelled.
NextMine ==
    \/ \E t \in Tasks : AddBlockCall(t)
    \/ \E t \in Tasks : MineResume(t)
    \/ Submit
    \/ Tick

SpecMine ==
    Init /\ [][NextMine]_vars /\ \A t \in Tasks : WF_vars(MineResume(t))

\* A caller's use of Transaction: construction, sign and is_valid.
Senders == {Genesis, KeyHex(1), KeyHex(2), <<"z", "z">>, <<"0">>, <<"0", "a">>}
Receivers == {<<"1">>, <<"1", "1">>}
Amounts == {0, 1, 10}
Signatures ==
    {None, [kind |-> "str", text |-> <<"z">>], [kind |-> "str", text |-> <<"0", "1">>]}

\* Transaction(sender, receiver, amount, ..., signature): the signature may be
\* None, any string, or the signature another transaction carries. The caller
\* holds no result of is_valid for the new object.
NewTransaction(sender, receiver, amount, signature) ==
    /\ tx' = [sender |-> sender, receiver |-> receiver, amount |-> amount,
              signature |-> signature]
    /\ ret' = NoRet
    /\ UNCHANGED <<chain, difficulty, pending_transactions, pc, new_block,
                   call_pre, now, nextTx, tampered, db>>

\* tx.sign(private key of pair k)
SignCall(k, salt) ==
    /\ tx' = sign(tx, k, salt)
    /\ ret' = NoRet
    /\ UNCHANGED <<chain, difficulty, pending_transactions, pc, new_block,
                   call_pre, now, nextTx, tampered, db>>

\* tx.is_valid()
TxIsValidCall ==
    /\ ret' = [kind |-> "tx_is_valid", result |-> Transaction_is_valid(tx)]
    /\ UNCHANGED <<chain, difficulty, pending_transactions, pc, new_block,
                   call_pre, now, nextTx, tampered, tx, db>>

NextTx ==
    \/ \E sender \in Senders : \E receiver \in Receivers : \E amount \in Amounts :
          \E signature \in Signatures \cup {tx.signature} :
             NewTransaction(sender, receiver, amount, signature)
    \/ \E k \in Keys : \E salt \in Salts : SignCall(k, salt)
    \/ TxIsValidCall

SpecTx == Init /\ [][NextTx]_vars

--------------------------------------------------------------------------
\* POST /transactions/ (src/main.py)

GasValues == {-1, 1}

\* A request: whether its bearer token is API_TOKEN, and its body.
Requests ==
    [token_ok : BOOLEAN, input_gas : GasValues, output_gas : GasValues,
     self_consumption : GasValues]

HTTPException(status) == [exc |-> "HTTPException", status |-> status]

\* Lines 80-99, the body of the try. detect_anomaly(...) is not awaited and
\* hands back a coroutine object; blockchain.add_block takes no argument
\* besides self, so the call with a dict raises TypeError before lines 94-96
\* add a row.
add_transaction_try(r) ==
    IF r.input_gas < 0 \/ r.output_gas < 0 \/ r.self_consumption < 0
    THEN HTTPException(400)
    ELSE [exc |-> "TypeError"]

\* Lines 100-105: except ValidationError, then except Exception, which takes
\* an HTTPException too. The status of the response.
add_transaction(r) ==
    LET e == add_transaction_try(r)
    IN  IF e.exc = "ValidationError" THEN 422 ELSE 500

\* A request to POST /transactions/: verify_token (lines 47-49), then the
\* handler, which runs in one piece.
PostTransaction(r) ==
    /\ ret' = [kind |-> "http", request |-> r,
               status |-> IF r.token_ok THEN add_transaction(r) ELSE 401]
    /\ UNCHANGED <<chain, difficulty, pending_transactions, pc, new_block,
                   call_pre, now, nextTx, tampered, tx, db>>

NextApi ==
    \/ Next
    \/ \E r \in Requests : PostTransaction(r)

SpecApi == Init /\ [][NextApi]_vars

--------------------------------------------------------------------------
\* Direct tampering with an appended block, as a test harness does it

Fields == {"index", "previous_hash", "timestamp", "transactions", "nonce", "hash"}

\* Values a harness may write over field f of block b: each differs from the
\* value b holds.
FieldValues(b, f) ==
    CASE f = "index" -> {b.index + 1}
      [] f = "timestamp" -> {b.timestamp + 1}
      [] f = "nonce" -> {b.nonce + 1}
      [] f = "transactions" -> {<<>>, <<ForgedTx>>} \ {b.transactions}
      [] f = "previous_hash" -> {<<0>>, b.hash} \ {b.previous_hash}
      [] f = "hash" -> {b.previous_hash, mine_step(b).hash} \ {b.hash}

\* setattr(chain[i-1], f, v) on a chain that is_valid() accepts; the harness
\* then holds no result of is_valid for the chain as it now is.
Tamper(i, f, v) ==
    /\ tampered = NoRet
    /\ is_valid(chain)
    /\ chain' = [chain EXCEPT ![i][f] = v]
    /\ tampered' = [kind |-> "tamper", pos |-> i, field |-> f]
    /\ ret' = NoRet
    /\ UNCHANGED <<difficulty, pending_transactions, pc, new_block, call_pre,
                   now, nextTx, tx, db>>

\* The engine runs; the harness tampers once and reruns is_valid.
NextTamper ==
    \/ tampered = NoRet /\ Next
    \/ \E i \in 1..Len(chain) : \E f \in Fields :
          \E v \in FieldValues(chain[i], f) : Tamper(i, f, v)
    \/ tampered # NoRet /\ IsValidCall

SpecTamper == Init /\ [][NextTamper]_vars

--------------------------------------------------------------------------
\* Properties

Range(s) == {s[k] : k \in 1..Len(s)}
Sealed == UNION {Range(chain[i].transactions) : i \in 2..Len(chain)}
Submitted == 1..(nextTx - 1)

\* What is_valid is to decide: no block after genesis with a stale hash or a
\* broken link.
Mismatch(c, i) ==
    c[i].hash # calculate_hash(c[i]) \/ c[i].previous_hash # c[i-1].hash
Intact(c) == \A i \in 2..Len(c) : ~Mismatch(c, i)

\* C1: with submissions and add_block calls only, in any interleaving, every
\* block after genesis links to the hash of the block before it and carries
\* its own recomputed hash, so is_valid() returns true.
C1_ChainAlwaysValid == Intact(chain) /\ is_valid(chain)

\* C2: at most one add_block is between its snapshot and its append + clear.
C2_SingleSealInFlight == Cardinality(Mining) <= 1

\* C3: a transaction once added to the pool is, ever after, in the pool or in
\* the transactions of a block of chain.
C3_NoTransactionDropped ==
    \A x \in Submitted : x \in Range(pending_transactions) \/ x \in Sealed

\* C4: add_block on an empty pool ends with the empty-pool error before any
\* block is built or mined, and leaves chain and the pool as they were.
C4_EmptyPoolRejected ==
    [][\A t \in Tasks :
         (pending_transactions = <<>> /\ AddBlockCall(t)) =>
            /\ ret' = [kind |-> "ValueError", task |-> t]
            /\ UNCHANGED <<chain, pending_transactions, pc, new_block>>]_vars

C4_Witness ==
    /\ ret.kind = "ValueError"
    /\ Len(chain) = 1
    /\ pending_transactions = <<>>

\* C5: the block that mine(d) has returned carries a hash with at least d
\* leading zero digits, and that hash is calculate_hash() of its final fields.
Mined_ok(b) ==
    /\ Len(b.hash) >= difficulty
    /\ \A k \in 1..difficulty : b.hash[k] = 0
    /\ b.hash = calculate_hash(b)

C5_MinedHashMeetsDifficulty ==
    /\ \A i \in 2..Len(chain) : Mined_ok(chain[i])
    /\ ret.kind = "block" => Mined_ok(ret.block)

C5_Witness ==
    /\ difficulty = 2
    /\ ret.kind = "block"
    /\ ret.block.nonce > 0
    /\ Mined_ok(ret.block)

\* C6 as stated: on a chain is_valid() accepts, overwriting any one field of
\* any appended block makes is_valid() return false.
C6_AnyTamperDetected ==
    tampered.kind = "tamper" => ~is_valid(chain)

Detected ==
    \/ tampered.pos >= 2 /\ tampered.field # "transactions"
    \/ tampered.pos = 1 /\ tampered.field = "hash" /\ Len(chain) >= 2

\* C6 amended: on a chain is_valid() accepts, overwriting index, previous_hash,
\* timestamp, nonce or hash of a block after genesis, or the hash of a genesis
\* block that has a successor, makes is_valid() return false.
C6_MetadataTamperDetected ==
    (tampered.kind = "tamper" /\ Detected) =>
        /\ ~is_valid(chain)
        /\ ret.kind = "bool" => ret.value = FALSE

C6_Witness ==
    /\ tampered.kind = "tamper"
    /\ tampered.pos >= 2
    /\ tampered.field = "nonce"
    /\ ret = [kind |-> "bool", value |-> FALSE]

\* C7: the append of the sealed block and the clearing of the pool are one
\* step: the chain grows only in a step that leaves the pool empty, the pool
\* loses transactions only in a step that appends a block, and no state shows
\* a transaction both in the pool and in a block of chain.
C7_AppendClearAtomic ==
    /\ [](Sealed \cap Range(pending_transactions) = {})
    /\ [][/\ chain' # chain => pending_transactions' = <<>>
          /\ ~(Range(pending_transactions) \subseteq Range(pending_transactions'))
                => (Len(chain') = Len(chain) + 1 /\ pending_transactions' = <<>>)]_vars

C7_Witness ==
    /\ ret.kind = "block"
    /\ Len(chain) >= 2
    /\ Last(chain) = ret.block
    /\ Len(ret.block.transactions) >= 1
    /\ pending_transactions = <<>>

\* C8: an add_block cancelled at a yield of the mining loop has changed
\* neither chain nor the pool, at its start, at any of its mining steps or at
\* the cancellation, and its block is dropped: chain takes a block only as the
\* returned block of an add_block that completes.
C8_AbortAllOrNothing ==
    [][\A t \in Tasks :
         /\ (pc'[t] = "mining" /\ new_block'[t] # new_block[t])
               => UNCHANGED <<chain, pending_transactions>>
         /\ (pc[t] = "mining" /\ pc'[t] = "idle"
                /\ ret' = [kind |-> "CancelledError", task |-> t])
               => /\ UNCHANGED <<chain, pending_transactions>>
                  /\ new_block'[t] = NoBlock
         /\ chain' # chain
               => ret'.kind = "block" /\ chain' = Append(chain, ret'.block)]_vars

C8_Witness ==
    /\ ret.kind = "CancelledError"
    /\ new_block[ret.task] = NoBlock
    /\ Len(chain) = 1
    /\ pending_transactions # <<>>

C10_IsValidDecides ==
    [][IsValidCall =>
         /\ ret' = [kind |-> "bool", value |-> Intact(chain)]
         /\ UNCHANGED <<chain, pending_transactions>>]_vars

C10_Witness ==
    /\ ret = [kind |-> "bool", value |-> FALSE]
    /\ Len(chain) = 3
    /\ ~Mismatch(chain, 2)
    /\ Mismatch(chain, 3)

C13_IndexIsPosition ==
    \A i \in 1..Len(chain) : chain[i].index = i - 1

\* C14: mine(d) stops at the smallest nonce, from the one it starts with,
\* whose digest has d leading zeros (the starting nonce itself when its digest
\* has them), and a mining coroutine that is resumed whenever it is ready
\* returns its block when such a nonce exists.
HasZeros(h) == Len(h) >= difficulty /\ \A k \in 1..difficulty : h[k] = 0
DigestAt(b, n) == calculate_hash([b EXCEPT !.nonce = n])
Solvable(b) == \E n \in b.nonce..MaxNonce : HasZeros(DigestAt(b, n))

C14_LinearSearch ==
    /\ [](ret.kind = "block" =>
            /\ HasZeros(ret.block.hash)
            /\ \A n \in 0..(ret.block.nonce - 1) : ~HasZeros(DigestAt(ret.block, n)))
    /\ \A t \in Tasks :
          (pc[t] = "mining" /\ Solvable(new_block[t]))
             ~> (ret.kind = "block" /\ ret.task = t)

C14_Witness ==
    /\ ret.kind = "block"
    /\ ret.block.nonce >= 2
    /\ HasZeros(ret.block.hash)

\* C15: chain is never empty, its first block is the genesis block of
\* construction (index 0, previous_hash "0", nonce 0), and every step keeps
\* the blocks chain holds, in place and unchanged: chain only grows at its end.
C15_AppendOnly ==
    /\ [](/\ Len(chain) >= 1
          /\ chain[1] = _create_genesis_block(0)
          /\ chain[1].index = 0
          /\ chain[1].previous_hash = <<0>>
          /\ chain[1].nonce = 0)
    /\ [][/\ Len(chain') >= Len(chain)
          /\ SubSeq(chain', 1, Len(chain)) = chain]_vars

C15_Witness ==
    /\ Len(chain) = 3
    /\ chain[1] = _create_genesis_block(0)
    /\ chain[2].nonce > 0

\* C16: a transaction submitted once is in the transactions of at most one
\* block of chain.
C16_SealedAtMostOnce ==
    \A x \in Submitted :
       Cardinality({i \in 2..Len(chain) : x \in Range(chain[i].transactions)}) <= 1

\* C17: every block after genesis holds at least one transaction.
C17_NoEmptyBlock ==
    \A i \in 2..Len(chain) : Len(chain[i].transactions) >= 1

C17_Witness ==
    /\ Len(chain) = 3
    /\ chain[3].index = 1
    /\ chain[2].transactions # <<>>
    /\ chain[3].transactions # <<>>

\* C11: Transaction.is_valid() always returns a boolean and never raises:
\* true for the genesis sender whatever the signature; for any other sender
\* true exactly when sender decodes to a key and the stored signature is one
\* that key made over the message of (sender, receiver, amount); false for a
\* missing signature, a malformed key or signature, or another key's signature.
Verifies(t) ==
    \E k \in Keys : \E salt \in Salts :
       /\ t.sender = KeyHex(k)
       /\ t.signature = SigHex(ecdsa_sign(k, tx_data(t), salt))

C11_IsValidTotal ==
    ret.kind = "tx_is_valid" =>
        /\ ret.result.kind = "value"
        /\ ret.result.value \in BOOLEAN
        /\ ret.result.value = (tx.sender = Genesis \/ Verifies(tx))

C11_Witness ==
    /\ ret = [kind |-> "tx_is_valid", result |-> Value(FALSE)]
    /\ tx.sender = KeyHex(1)
    /\ tx.signature.kind = "hexsig"
    /\ tx.signature.sig.signer = 2
    /\ tx.signature.sig.data = tx_data(tx)

\* C18: POST /transactions/ with a negative input_gas, output_gas or
\* self_consumption (and a good token) is answered with status 400, and adds
\* no block and no block reference.
Negative(r) == r.input_gas < 0 \/ r.output_gas < 0 \/ r.self_consumption < 0

C18_NegativeGasIs400 ==
    (ret.kind = "http" /\ ret.request.token_ok /\ Negative(ret.request)) =>
        /\ ret.status = 400
        /\ db = <<>>

====
